---- MODULE Spec2Model ----
(***************************************************************************)
(* Model of the kick/tools utilities:                                      *)
(*   convert.py           WAV -> hex listing, command line                 *)
(*   wav_table_gen_v1.py  WAV -> hex listing, file dialog                  *)
(*   split_samples.py     sample.h -> one header per array + samples.h     *)
(* Text is a sequence of one-character strings; a file system is a         *)
(* function from paths to file contents.                                   *)
(***************************************************************************)
EXTENDS Integers, Sequences, FiniteSets, TLC

VARIABLES
    \* ---- convert.py (one run of main)
    fs0,        \* the file system when the run starts
    fs,         \* the file system now
    locked,     \* paths write_text cannot write (PermissionError)
    args,       \* args.files
    outdir,     \* args.output_dir (NoDir: option absent)
    verbose,    \* args.verbose
    maxsec,     \* args.max_seconds
    pc,         \* position of main: parse, count, validate, process, done
    vi,         \* index of the validation loop (line 107)
    pi,         \* index of the processing loop (line 115)
    statted,    \* indices whose existence main's validation loop tested
    opened,     \* indices handed to wave.open, in order
    wrote,      \* one record per write_text that succeeded, in order
    stderr,     \* messages printed to sys.stderr, in order
    success,    \* the final "Successfully processed" line was printed
    exitcode,   \* NoExit while running, else the process's exit status
    \* ---- wav_table_gen_v1.py (one run of main, on its own file system)
    gfs, gpc, gpi, gopened, gwrote, gdialogs, gexit,
    \* ---- the hex encoder on its own
    hbuf, hline, hpc,
    \* ---- split_samples.py
    content, inputExists, spc, matches, mi, valid_samples, headers, master, notices

cliVars == <<fs0, fs, locked, args, outdir, verbose, maxsec, pc, vi, pi, statted,
             opened, wrote, stderr, success, exitcode>>
guiVars == <<gfs, gpc, gpi, gopened, gwrote, gdialogs, gexit>>
hexVars == <<hbuf, hline, hpc>>
splitVars == <<content, inputExists, spc, matches, mi, valid_samples, headers,
               master, notices>>
vars == <<cliVars, guiVars, hexVars, splitVars>>

----------------------------------------------------------------------------
(* Bounds of the model *)

\* longest batch enumerated in full (longer ones repeat one path)
MaxBatch == 2
\* largest frame rate and frame count of the truncation inputs
MaxRate == 2
MaxFrames == 3
\* --max-seconds ranges over -MaxSecArg .. MaxSecArg in the truncation inputs
MaxSecArg == 2
\* longest byte buffer handed to the hex encoder on its own
MaxBuf == 3

(* Program constants *)
MAX_FILES == 18
MAX_SECONDS == 20

----------------------------------------------------------------------------
(* Small helpers *)

Min(a, b) == IF a < b THEN a ELSE b

Range(s) == {s[j] : j \in 1..Len(s)}

Repeat(x, n) == [j \in 1..n |-> x]

SetMin(S) == CHOOSE x \in S : \A y \in S : x <= y
SetMax(S) == CHOOSE x \in S : \A y \in S : x >= y

\* the indices of s, in order
IndexSeq(s) == [j \in 1..Len(s) |-> j]

RECURSIVE SeqsUpTo(_, _)
\* all sequences over S of length 0..n
SeqsUpTo(S, n) ==
    IF n = 0 THEN {<<>>}
    ELSE LET shorter == SeqsUpTo(S, n - 1)
         IN  shorter \cup {Append(s, x) : s \in {t \in shorter : Len(t) = n - 1}, x \in S}

----------------------------------------------------------------------------
(* Paths and files *)

NoDir == "-"
NoExit == 0 - 1

Path(d, s, e) == [dir |-> d, stem |-> s, ext |-> e]

Missing == [k |-> "none"]
Junk == [k |-> "junk"]
Text(chars) == [k |-> "text", chars |-> chars]
Wav(nch, sw, comp, rate, data) ==
    [k |-> "wav", nch |-> nch, sw |-> sw, comp |-> comp, rate |-> rate, data |-> data]

\* in_path.exists()
Exists(f, p) == f[p].k # "none"

\* in_path.with_suffix(".txt"), under output_dir when the option is given
OutPath(p, od) ==
    IF od # NoDir THEN Path(od, p.stem, "txt") ELSE Path(p.dir, p.stem, "txt")

\* file_path.suffix.lower() != ".wav"
NotWavSuffix(p) == p.ext # "wav"

----------------------------------------------------------------------------
(* The hex encoder: ",".join(f"0x{b:02X}" for b in raw_bytes) *)

HexDigits == <<"0", "1", "2", "3", "4", "5", "6", "7",
               "8", "9", "A", "B", "C", "D", "E", "F">>

HexByte(b) == <<"0", "x", HexDigits[(b \div 16) + 1], HexDigits[(b % 16) + 1]>>

RECURSIVE Join(_, _)
\* sep.join(parts): the separator goes between the parts only
Join(parts, sep) ==
    IF Len(parts) = 0 THEN <<>>
    ELSE IF Len(parts) = 1 THEN parts[1]
    ELSE LET h == Len(parts) \div 2
         IN  Join(SubSeq(parts, 1, h), sep) \o sep
                 \o Join(SubSeq(parts, h + 1, Len(parts)), sep)

\* an encoder that ends every entry, the last one too, with a comma
HexLine_trailingComma(raw) ==
    Join([j \in 1..Len(raw) |-> HexByte(raw[j])], <<",">>)
        \o (IF Len(raw) > 0 THEN <<",">> ELSE <<>>)

HexLine(raw) == Join([j \in 1..Len(raw) |-> HexByte(raw[j])], <<",">>)

----------------------------------------------------------------------------
(* What the wave module does for the converter *)

NoExc == [cls |-> "none", msg |-> "none"]
Exc(cls, msg) == [cls |-> cls, msg |-> msg]

\* sys.exit(1) raises SystemExit, which derives from BaseException, not Exception
IsException(e) == e.cls \notin {"none", "SystemExit"}

\* wave.open(str(in_path), "rb"): the class it raises, or "none".  A file shorter
\* than the 8-byte RIFF chunk header ends in EOFError, any other non-RIFF file in
\* wave.Error.
WaveOpen(c) ==
    CASE c.k = "wav"  -> "none"
      [] c.k = "junk" -> "wave.Error"
      [] c.k = "text" -> IF Len(c.chars) < 8 THEN "EOFError" ELSE "wave.Error"
      [] OTHER        -> "FileNotFoundError"

\* w.getnframes() of a 16-bit mono stream: the data chunk's size over the frame size
NFrames(w) == Len(w.data) \div (w.nch * w.sw)

\* w.readframes(n): at most n frames from the start of the data chunk; the chunk
\* reader takes a negative size as "all that is left"
ReadFrames(w, n) ==
    IF n < 0 THEN w.data
    ELSE SubSeq(w.data, 1, Min(n * w.nch * w.sw, Len(w.data)))

----------------------------------------------------------------------------
(* convert.py: process_file *)

\* the three format checks in the order of lines 29-37; "ok" when all pass
FormatCheck_widthFirst(w) ==
    IF w.sw # 2 THEN "Only 16-bit PCM is supported"
    ELSE IF w.nch # 1 THEN "Stereo is not supported"
    ELSE IF w.comp # "NONE" THEN "Compressed WAV is not supported"
    ELSE "ok"

FormatCheck(w) ==
    IF w.nch # 1 THEN "Stereo is not supported"
    ELSE IF w.sw # 2 THEN "Only 16-bit PCM is supported"
    ELSE IF w.comp # "NONE" THEN "Compressed WAV is not supported"
    ELSE "ok"

\* frames = min(rate * max_seconds, w.getnframes())
FramesToRead(w, ms) == Min(w.rate * ms, NFrames(w))

\* The body of the try block (lines 28-56) on file system f: the exception that
\* leaves it (NoExc when it runs to the end), the file system it leaves, the
\* lines it printed to stderr, and the write it made, if any.
TryBody(f, lk, idx, p, od, vb, ms) ==
    LET out == OutPath(p, od)
        w == f[p]
        fmt == FormatCheck(w)
        frames == FramesToRead(w, ms)
        raw == ReadFrames(w, frames)
        hex_line == HexLine(raw)
        written == [f EXCEPT ![out] = Text(hex_line)]
        rec == [idx |-> idx, path |-> out, nbytes |-> Len(raw), nchars |-> Len(hex_line)]
        still == [exc |-> NoExc, fs |-> f, err |-> <<>>, wrote |-> <<>>]
    IN  IF WaveOpen(w) # "none"
            THEN [still EXCEPT !.exc = Exc(WaveOpen(w), "open")]
        ELSE IF fmt # "ok"
            THEN [still EXCEPT !.exc = Exc("SystemExit", fmt), !.err = <<fmt>>]
        ELSE IF out \in lk
            THEN [still EXCEPT !.exc = Exc("PermissionError", "write")]
        ELSE IF vb /\ w.rate = 0
            THEN [exc |-> Exc("ZeroDivisionError", "division by zero"),
                  fs |-> written, err |-> <<>>, wrote |-> <<rec>>]
        ELSE [exc |-> NoExc, fs |-> written, err |-> <<>>, wrote |-> <<rec>>]

\* The except clauses (lines 58-63): the stderr line of the clause that catches
\* e, or <<>> when none does and e leaves process_file as it is.
Handle(e) ==
    IF e.cls = "wave.Error" THEN <<"Error processing">>
    ELSE IF IsException(e) THEN <<"Unexpected error processing">>
    ELSE <<>>

\* process_file that reports an error and returns instead of exiting
ProcessFile_noExit(f, lk, idx, p, od, vb, ms) ==
    IF ~Exists(f, p)
    THEN [fs |-> f, wrote |-> <<>>, opened |-> FALSE,
          err |-> <<"File not found">>, exit |-> NoExit]
    ELSE LET b == TryBody(f, lk, idx, p, od, vb, ms)
         IN  [fs |-> b.fs, wrote |-> b.wrote, opened |-> TRUE,
              err |-> b.err \o Handle(b.exc), exit |-> NoExit]

\* process_file(in_path, output_dir, verbose, max_seconds) as a whole:
\*   fs, wrote  the file system and the write it leaves
\*   opened     whether wave.open was called
\*   err        its stderr lines: the body's, then the handler's
\*   exit       1 when it ends the process, NoExit when it returns
ProcessFile(f, lk, idx, p, od, vb, ms) ==
    IF ~Exists(f, p)
    THEN [fs |-> f, wrote |-> <<>>, opened |-> FALSE,
          err |-> <<"File not found">>, exit |-> 1]
    ELSE LET b == TryBody(f, lk, idx, p, od, vb, ms)
             caught == Handle(b.exc)
         IN  [fs |-> b.fs, wrote |-> b.wrote, opened |-> TRUE,
              err |-> b.err \o caught,
              exit |-> IF b.exc.cls = "none" THEN NoExit ELSE 1]

----------------------------------------------------------------------------
(* convert.py: main *)

\* len(args.files) > MAX_FILES
TooMany_offByOne(n) == n >= MAX_FILES

TooMany(n) == n > MAX_FILES

\* the process ends: sys.exit(code), or argparse's exit
CliExit(code, msgs) ==
    /\ pc' = "done"
    /\ exitcode' = code
    /\ stderr' = stderr \o msgs

\* parser.parse_args() with files nargs="+": no file at all is a usage error
ParseArgs ==
    /\ pc = "parse"
    /\ IF Len(args) = 0
       THEN CliExit(2, <<"usage">>)
       ELSE /\ pc' = "count"
            /\ UNCHANGED <<exitcode, stderr>>
    /\ UNCHANGED <<fs0, fs, locked, args, outdir, verbose, maxsec, vi, pi, statted,
                   opened, wrote, success>>
    /\ UNCHANGED <<guiVars, hexVars, splitVars>>

\* lines 101-104
CheckCount ==
    /\ pc = "count"
    /\ IF TooMany(Len(args))
       THEN CliExit(1, <<"Too many files specified">>)
       ELSE /\ pc' = "validate"
            /\ UNCHANGED <<exitcode, stderr>>
    /\ UNCHANGED <<fs0, fs, locked, args, outdir, verbose, maxsec, vi, pi, statted,
                   opened, wrote, success>>
    /\ UNCHANGED <<guiVars, hexVars, splitVars>>

\* file_path.exists() of the validation loop: the paths the loop lets through
GateExists_none(f, p) == TRUE

GateExists(f, p) == Exists(f, p)

\* one iteration of the loop of lines 107-112
ValidateStep ==
    /\ pc = "validate"
    /\ vi <= Len(args)
    /\ statted' = statted \cup {vi}
    /\ IF ~GateExists(fs, args[vi])
       THEN /\ CliExit(1, <<"File not found">>)
            /\ UNCHANGED vi
       ELSE /\ vi' = vi + 1
            /\ stderr' = IF NotWavSuffix(args[vi])
                         THEN Append(stderr, "Warning: no .wav extension")
                         ELSE stderr
            /\ UNCHANGED <<pc, exitcode>>
    /\ UNCHANGED <<fs0, fs, locked, args, outdir, verbose, maxsec, pi, opened, wrote,
                   success>>
    /\ UNCHANGED <<guiVars, hexVars, splitVars>>

\* the validation loop is over, the processing loop starts (line 115)
ValidateDone ==
    /\ pc = "validate"
    /\ vi > Len(args)
    /\ pc' = "process"
    /\ UNCHANGED <<fs0, fs, locked, args, outdir, verbose, maxsec, vi, pi, statted,
                   opened, wrote, stderr, success, exitcode>>
    /\ UNCHANGED <<guiVars, hexVars, splitVars>>

\* one iteration of the loop of lines 115-116; a process_file that called
\* sys.exit ends main there
ProcessStep ==
    /\ pc = "process"
    /\ pi <= Len(args)
    /\ LET r == ProcessFile(fs, locked, pi, args[pi], outdir, verbose, maxsec)
       IN  /\ fs' = r.fs
           /\ wrote' = wrote \o r.wrote
           /\ opened' = IF r.opened THEN Append(opened, pi) ELSE opened
           /\ IF r.exit # NoExit
              THEN /\ CliExit(r.exit, r.err)
                   /\ UNCHANGED pi
              ELSE /\ pi' = pi + 1
                   /\ stderr' = stderr \o r.err
                   /\ UNCHANGED <<pc, exitcode>>
    /\ UNCHANGED <<fs0, locked, args, outdir, verbose, maxsec, vi, statted, success>>
    /\ UNCHANGED <<guiVars, hexVars, splitVars>>

\* line 118, then the interpreter exits with status 0
Finish ==
    /\ pc = "process"
    /\ pi > Len(args)
    /\ success' = TRUE
    /\ pc' = "done"
    /\ exitcode' = 0
    /\ UNCHANGED <<fs0, fs, locked, args, outdir, verbose, maxsec, vi, pi, statted,
                   opened, wrote, stderr>>
    /\ UNCHANGED <<guiVars, hexVars, splitVars>>

----------------------------------------------------------------------------
(* Inputs of the converter *)

\* 16-bit mono samples; every hex digit occurs
DataPool == <<0, 1, 171, 255, 16, 9, 160, 205, 35, 69, 103, 142, 254, 128>>

\* the first n frames (2 bytes each) of DataPool
Frames16(n) == SubSeq(DataPool, 1, 2 * n)

Mono16 == Wav(1, 2, "NONE", 1, Frames16(2))

\* every way a stream that wave.open accepts can fail the format checks
BadFormats ==
    {Wav(nch, sw, comp, 1, Frames16(2)) :
        nch \in {1, 2}, sw \in {1, 2}, comp \in {"NONE", "ULAW"}} \ {Mono16}

KindPool == {Missing, Junk, Mono16} \cup BadFormats

InA == Path("in", "a", "wav")
InB == Path("in", "b", "wav")

\* a file system holding `files` (a function on some paths) and nothing else:
\* its paths are those of the files and of their listings
FsOf(files) ==
    LET outs == {OutPath(q, od) : q \in DOMAIN files, od \in {NoDir, "out"}}
    IN  [p \in DOMAIN files \cup outs |-> IF p \in DOMAIN files THEN files[p] ELSE Missing]

CliIdle ==
    /\ pc = "parse" /\ vi = 1 /\ pi = 1 /\ statted = {} /\ opened = <<>>
    /\ wrote = <<>> /\ stderr = <<>> /\ success = FALSE /\ exitcode = NoExit
    /\ fs = fs0

\* short batches over two paths of every kind, every option
InitKinds ==
    /\ \E files \in [{InA, InB} -> KindPool] : fs0 = FsOf(files)
    /\ args \in SeqsUpTo({InA, InB}, MaxBatch)
    /\ outdir \in {NoDir, "out"}
    /\ verbose \in BOOLEAN
    /\ maxsec = MAX_SECONDS
    /\ locked \in {{}, {OutPath(InA, outdir)}}

\* batches of MAX_FILES and MAX_FILES + 1 paths
InitLong ==
    /\ \E files \in [{InA, InB} -> {Missing, Mono16, Junk}] : fs0 = FsOf(files)
    /\ \E first \in {InA, InB}, n \in {MAX_FILES, MAX_FILES + 1} :
          args = <<first>> \o Repeat(InA, n - 1)
    /\ outdir = NoDir
    /\ verbose = FALSE
    /\ maxsec = MAX_SECONDS
    /\ locked = {}

\* one valid file of every rate and length under every --max-seconds
InitTrunc ==
    /\ \E rate \in 0..MaxRate, n \in 0..MaxFrames :
          fs0 = FsOf([p \in {InA} |-> Wav(1, 2, "NONE", rate, Frames16(n))])
    /\ args = <<InA>>
    /\ outdir = NoDir
    /\ verbose \in BOOLEAN
    /\ maxsec \in (0 - MaxSecArg)..MaxSecArg \cup {MAX_SECONDS}
    /\ locked = {}

\* a file and the path its listing goes to, both selected
InATxt == Path("in", "a", "txt")

InitChain ==
    /\ \E files \in [{InA, InATxt} -> {Missing, Mono16, Junk}] : fs0 = FsOf(files)
    /\ args \in SeqsUpTo({InA, InATxt}, MaxBatch)
    /\ outdir = NoDir
    /\ verbose = FALSE
    /\ maxsec = MAX_SECONDS
    /\ locked = {}

\* batches of distinct valid files whose names differ in directory, stem or extension
PathPool == {InA, InB, Path("in", "a", "mp3"), Path("in", "a", "txt"),
             Path("in2", "a", "wav")}

DataOf(p) ==
    LET d == IF p.dir = "in" THEN 0 ELSE 1
        t == IF p.stem = "a" THEN 0 ELSE 2
        e == CASE p.ext = "wav" -> 0 [] p.ext = "mp3" -> 4 [] OTHER -> 8
    IN  <<d + t + e, 255 - (d + t + e)>>

InitPaths ==
    /\ fs0 = FsOf([p \in PathPool |-> Wav(1, 2, "NONE", 1, DataOf(p))])
    /\ args \in {s \in SeqsUpTo(PathPool, MaxBatch) :
                    Len(s) >= 1 /\ Cardinality(Range(s)) = Len(s)}
    /\ outdir \in {NoDir, "out"}
    /\ verbose = FALSE
    /\ maxsec = MAX_SECONDS
    /\ locked = {}

----------------------------------------------------------------------------
(* wav_table_gen_v1.py.  The dialog's selection is args; the program runs on *)
(* its own copy gfs of the same initial file system, after convert.py's run. *)

\* lines 41-46
GuiFormatCheck(w) ==
    IF w.nch # 1 THEN "Stereo is not supported"
    ELSE IF w.sw # 2 THEN "Only 16-bit PCM is supported"
    ELSE IF w.comp # "NONE" THEN "Compressed WAV is not supported"
    ELSE "ok"

\* frames = min(rate * MAX_SECONDS, w.getnframes())
GuiFramesToRead(w) == Min(w.rate * MAX_SECONDS, NFrames(w))

ShowError(msg) == [kind |-> "showerror", msg |-> msg]
ShowInfo(msg) == [kind |-> "showinfo", msg |-> msg]
Traceback(cls) == [kind |-> "stderr", msg |-> cls]

\* process_file(in_path): bail() shows the error and exits; an exception nobody
\* catches ends the process with a traceback and status 1
GuiProcessFile(f, lk, idx, p) ==
    LET out == OutPath(p, NoDir)
        w == f[p]
        fmt == GuiFormatCheck(w)
        raw == ReadFrames(w, GuiFramesToRead(w))
        hex_line == HexLine(raw)
        rec == [idx |-> idx, path |-> out, nbytes |-> Len(raw), nchars |-> Len(hex_line)]
        stop == [fs |-> f, wrote |-> <<>>, opened |-> TRUE, exit |-> 1]
    IN  IF ~Exists(f, p)
            THEN [stop EXCEPT !.opened = FALSE] @@ [shown |-> <<ShowError("File not found")>>]
        ELSE IF WaveOpen(w) # "none"
            THEN stop @@ [shown |-> <<Traceback(WaveOpen(w))>>]
        ELSE IF fmt # "ok"
            THEN stop @@ [shown |-> <<ShowError(fmt)>>]
        ELSE IF out \in lk
            THEN stop @@ [shown |-> <<Traceback("PermissionError")>>]
        ELSE [fs |-> [f EXCEPT ![out] = Text(hex_line)], wrote |-> <<rec>>,
              opened |-> TRUE, exit |-> NoExit, shown |-> <<ShowInfo("Done")>>]

GuiExit(code, shown) ==
    /\ gpc' = "done"
    /\ gexit' = code
    /\ gdialogs' = gdialogs \o shown

\* lines 63-66: an empty selection ends in sys.exit("Cancelled by user"), status 1
PickFiles ==
    /\ gpc = "pick"
    /\ pc = "done"
    /\ IF Len(args) = 0
       THEN GuiExit(1, <<[kind |-> "stderr", msg |-> "Cancelled by user"]>>)
       ELSE /\ gpc' = "count"
            /\ UNCHANGED <<gexit, gdialogs>>
    /\ UNCHANGED <<gfs, gpi, gopened, gwrote>>
    /\ UNCHANGED <<cliVars, hexVars, splitVars>>

\* len(in_paths) > MAX_FILES
GuiTooMany_offByOne(n) == n >= MAX_FILES

GuiTooMany(n) == n > MAX_FILES

\* lines 68-69
GuiCheckCount ==
    /\ gpc = "count"
    /\ IF GuiTooMany(Len(args))
       THEN GuiExit(1, <<ShowError("Too many files selected")>>)
       ELSE /\ gpc' = "process"
            /\ UNCHANGED <<gexit, gdialogs>>
    /\ UNCHANGED <<gfs, gpi, gopened, gwrote>>
    /\ UNCHANGED <<cliVars, hexVars, splitVars>>

\* one iteration of the loop of lines 71-72
GuiProcessStep ==
    /\ gpc = "process"
    /\ gpi <= Len(args)
    /\ LET r == GuiProcessFile(gfs, locked, gpi, args[gpi])
       IN  /\ gfs' = r.fs
           /\ gwrote' = gwrote \o r.wrote
           /\ gopened' = IF r.opened THEN Append(gopened, gpi) ELSE gopened
           /\ IF r.exit # NoExit
              THEN /\ GuiExit(r.exit, r.shown)
                   /\ UNCHANGED gpi
              ELSE /\ gpi' = gpi + 1
                   /\ gdialogs' = gdialogs \o r.shown
                   /\ UNCHANGED <<gpc, gexit>>
    /\ UNCHANGED <<cliVars, hexVars, splitVars>>

\* main returns: the interpreter exits with status 0
GuiFinish ==
    /\ gpc = "process"
    /\ gpi > Len(args)
    /\ gpc' = "done"
    /\ gexit' = 0
    /\ UNCHANGED <<gfs, gpi, gopened, gwrote, gdialogs>>
    /\ UNCHANGED <<cliVars, hexVars, splitVars>>

----------------------------------------------------------------------------
(* The hex encoder applied to a byte buffer of any length *)

ByteSamples == {0, 9, 10, 171, 255}

HexInit == hbuf \in SeqsUpTo(ByteSamples, MaxBuf) /\ hline = <<>> /\ hpc = "ready"

HexOff == hbuf = <<>> /\ hline = <<>> /\ hpc = "off"

Encode ==
    /\ hpc = "ready"
    /\ hline' = HexLine(hbuf)
    /\ hpc' = "done"
    /\ UNCHANGED hbuf
    /\ UNCHANGED <<cliVars, guiVars, splitVars>>

----------------------------------------------------------------------------
(* split_samples.py.  The input text is a sequence of declarations            *)
(*     const <type> <name>[] PROGMEM = {<payload>};                           *)
(* and each payload a sequence of tokens: byte literals, commas, blanks, line *)
(* breaks, block comments and bare words.                                     *)

Lit(v) == [t |-> "lit", v |-> v]
Comma == [t |-> ","]
Sp == [t |-> " "]
Nl == [t |-> "\n"]
Comment(txt) == [t |-> "comment", txt |-> txt]
Word(w) == [t |-> "word", w |-> w]

IsSpace(tok) == tok.t \in {" ", "\n"}

Name(base, num) == [base |-> base, num |-> num]
Decl(type, name, payload) == [type |-> type, name |-> name, payload |-> payload]

NoFile == [file |-> "none"]

\* array lines are broken after this many entries (line 41)
BytesPerLine == 16

\* r'const uint8_t (sample\d+)\[\] PROGMEM = \{([^}]+)\};' on one declaration:
\* the name is "sample" and at least one digit, the braces hold at least one
\* character
Matches(d) ==
    /\ d.type = "uint8_t"
    /\ d.name.base = "sample"
    /\ d.name.num # ""
    /\ Len(d.payload) >= 1

RECURSIVE FindAll(_)
\* re.findall(pattern, content, re.DOTALL): the (name, payload) groups of the
\* matches, left to right
FindAll(text) ==
    IF Len(text) = 0 THEN <<>>
    ELSE (IF Matches(text[1])
          THEN <<[name |-> text[1].name, data |-> text[1].payload]>>
          ELSE <<>>) \o FindAll(Tail(text))

\* re.sub(r'/\*[^*]*\*/', '', sample_data)
StripComments(toks) == SelectSeq(toks, LAMBDA tok : tok.t # "comment")

\* str.strip()
Strip(toks) ==
    LET solid == {j \in 1..Len(toks) : ~IsSpace(toks[j])}
    IN  IF solid = {} THEN <<>> ELSE SubSeq(toks, SetMin(solid), SetMax(solid))

\* re.sub(r'\s+', ' ', ...): each run of white space becomes one blank
Collapse(toks) ==
    LET kept == SelectSeq(IndexSeq(toks), LAMBDA j : ~IsSpace(toks[j]) \/ j = 1 \/ ~IsSpace(toks[j - 1]))
    IN  [k \in 1..Len(kept) |-> IF IsSpace(toks[kept[k]]) THEN Sp ELSE toks[kept[k]]]

\* lines 28-29
Clean(sample_data) == Collapse(Strip(StripComments(sample_data)))

\* str.lower() of the bare words of the inputs
Lower(w) ==
    CASE w = "PLACEHOLDER" -> "placeholder"
      [] w = "PlaceHolder" -> "placeholder"
      [] w = "TODO" -> "todo"
      [] OTHER -> w

\* 'placeholder' in cleaned_data.lower()
HasPlaceholder(toks) ==
    \E j \in 1..Len(toks) : toks[j].t = "word" /\ Lower(toks[j].w) = "placeholder"

\* line 32
Skipped(cleaned) == Len(cleaned) = 0 \/ Len(Strip(cleaned)) = 0 \/ HasPlaceholder(cleaned)

\* cleaned_data.split(', '): cut at each comma that a blank follows
Split(toks) ==
    LET cuts == SelectSeq(IndexSeq(toks), LAMBDA j : toks[j] = Comma /\ j < Len(toks) /\ toks[j + 1] = Sp)
        n == Len(cuts) + 1
    IN  [k \in 1..n |->
            SubSeq(toks, IF k = 1 THEN 1 ELSE cuts[k - 1] + 2,
                         IF k = n THEN Len(toks) ELSE cuts[k] - 1)]

RECURSIVE FormatFrom(_, _)
\* lines 40-45 from index i (0-based, as in the source): each line is
\* ', '.join(hex_values[i:i+16]), with a comma after it when more follow
FormatFrom(hex_values, i) ==
    IF i >= Len(hex_values) THEN <<>>
    ELSE LET slice == SubSeq(hex_values, i + 1, Min(i + BytesPerLine, Len(hex_values)))
             line == Join(slice, <<Comma, Sp>>)
         IN  <<IF i + BytesPerLine < Len(hex_values) THEN Append(line, Comma) ELSE line>>
             \o FormatFrom(hex_values, i + BytesPerLine)

FormatLines(hex_values) == FormatFrom(hex_values, 0)

\* sample_name.upper()
Upper(name) ==
    [base |-> CASE name.base = "sample" -> "SAMPLE" [] OTHER -> name.base,
     num |-> name.num]

\* the header file of lines 50-64
Header(name, lines) ==
    [file |-> "header", guard |-> <<Upper(name), "_H">>, array |-> name,
     lines |-> lines, lenMacro |-> <<Upper(name), "_LEN">>]

\* the pointer entries of lines 88-89: a comma after all but the last
Pointers(valid) ==
    [i \in 1..Len(valid) |-> [text |-> valid[i], comma |-> i - 1 < Len(valid) - 1]]

\* the length entries of lines 97-98
Lengths(valid) ==
    [i \in 1..Len(valid) |->
        [text |-> <<Upper(valid[i]), "_LEN">>, comma |-> i - 1 < Len(valid) - 1]]

\* samples.h (lines 74-105)
Master(valid) ==
    [file |-> "master", includes |-> valid, pointers |-> Pointers(valid),
     lengths |-> Lengths(valid)]

\* main, lines 113-118: without src/sample.h nothing is done
SplitMain ==
    /\ spc = "main"
    /\ IF inputExists
       THEN /\ spc' = "read"
            /\ UNCHANGED notices
       ELSE /\ spc' = "done"
            /\ notices' = Append(notices, [msg |-> "Error: Input file not found"])
    /\ UNCHANGED <<content, inputExists, matches, mi, valid_samples, headers, master>>
    /\ UNCHANGED <<cliVars, guiVars, hexVars>>

\* lines 12-24
ReadAndMatch ==
    /\ spc = "read"
    /\ matches' = FindAll(content)
    /\ valid_samples' = <<>>
    /\ mi' = 1
    /\ spc' = "loop"
    /\ UNCHANGED <<content, inputExists, headers, master, notices>>
    /\ UNCHANGED <<cliVars, guiVars, hexVars>>

\* one iteration of the loop of lines 26-70
LoopStep ==
    /\ spc = "loop"
    /\ mi <= Len(matches)
    /\ LET sample_name == matches[mi].name
           cleaned_data == Clean(matches[mi].data)
       IN  IF Skipped(cleaned_data)
           THEN /\ notices' = Append(notices, [msg |-> "Skipping empty sample",
                                               name |-> sample_name])
                /\ UNCHANGED <<valid_samples, headers>>
           ELSE /\ valid_samples' = Append(valid_samples, sample_name)
                /\ headers' = [headers EXCEPT ![sample_name] =
                                  Header(sample_name, FormatLines(Split(cleaned_data)))]
                /\ UNCHANGED notices
    /\ mi' = mi + 1
    /\ UNCHANGED <<content, inputExists, spc, matches, master>>
    /\ UNCHANGED <<cliVars, guiVars, hexVars>>

\* lines 72-109
WriteMaster ==
    /\ spc = "loop"
    /\ mi > Len(matches)
    /\ master' = Master(valid_samples)
    /\ spc' = "done"
    /\ UNCHANGED <<content, inputExists, matches, mi, valid_samples, headers, notices>>
    /\ UNCHANGED <<cliVars, guiVars, hexVars>>

----------------------------------------------------------------------------

ConverterInit ==
    /\ InitKinds \/ InitLong \/ InitTrunc \/ InitChain \/ InitPaths
    /\ CliIdle
    /\ gfs = fs0 /\ gpc = "pick" /\ gpi = 1 /\ gopened = <<>> /\ gwrote = <<>>
    /\ gdialogs = <<>> /\ gexit = NoExit

ConverterOff ==
    /\ fs0 = FsOf(<<>>) /\ fs = fs0 /\ locked = {} /\ args = <<>> /\ outdir = NoDir
    /\ verbose = FALSE /\ maxsec = MAX_SECONDS /\ pc = "off" /\ vi = 1 /\ pi = 1
    /\ statted = {} /\ opened = <<>> /\ wrote = <<>> /\ stderr = <<>>
    /\ success = FALSE /\ exitcode = NoExit
    /\ gfs = fs0 /\ gpc = "off" /\ gpi = 1 /\ gopened = <<>> /\ gwrote = <<>>
    /\ gdialogs = <<>> /\ gexit = NoExit

SplitOff ==
    /\ content = <<>> /\ inputExists = FALSE /\ spc = "off" /\ matches = <<>>
    /\ mi = 1 /\ valid_samples = <<>> /\ headers = <<>> /\ master = NoFile
    /\ notices = <<>>

----------------------------------------------------------------------------
(* Inputs of the splitter *)

\* most declarations of one input text, most literals of one array
MaxChunks == 3
MaxLits == 33

Sample1 == Name("sample", "1")
Sample2 == Name("sample", "2")
SampleNames == {Sample1, Sample2}

TwoBytes == <<Lit(1), Comma, Sp, Lit(2)>>
Blank == <<Sp, Nl>>
CommentOnly == <<Sp, Comment(" placeholder "), Sp>>
Marked == <<Lit(1), Comma, Sp, Word("PlaceHolder")>>
Commented == <<Nl, Lit(3), Comma, Sp, Comment("placeholder"), Nl, Lit(4), Nl>>

\* declarations the pattern matches, and some it does not
ChunkPool ==
    {Decl("uint8_t", n, pl) : n \in SampleNames,
                              pl \in {TwoBytes, Blank, CommentOnly, Marked, Commented}}
    \cup {Decl("uint8_t", Name("kick", "1"), TwoBytes),
          Decl("uint8_t", Name("sample", ""), TwoBytes),
          Decl("int16_t", Sample1, TwoBytes),
          Decl("uint8_t", Sample2, <<>>)}

\* the ways the literals of a list are separated
Separators ==
    {<<Comma, Sp>>, <<Comma>>, <<Comma, Nl, Sp, Sp>>, <<Sp, Comma, Sp>>,
     <<Comma, Sp, Comment("c"), Sp>>}

\* the list of the literals 1..n, on a line of its own
ByteList(n, sep) == <<Nl, Sp>> \o Join([j \in 1..n |-> <<Lit(j)>>], sep) \o <<Nl>>

SplitStart ==
    /\ spc = "main" /\ matches = <<>> /\ mi = 1 /\ valid_samples = <<>>
    /\ headers = [n \in SampleNames |-> NoFile] /\ master = NoFile /\ notices = <<>>

\* texts of up to MaxChunks declarations; src/sample.h may be absent
InitIndex ==
    /\ content \in SeqsUpTo(ChunkPool, MaxChunks)
    /\ inputExists \in BOOLEAN
    /\ ~inputExists => content = <<>>

\* one array of 1..MaxLits literals under every separator
InitFormat ==
    /\ \E n \in 1..MaxLits, sep \in Separators :
          content = <<Decl("uint8_t", Sample1, ByteList(n, sep))>>
    /\ inputExists = TRUE

SplitInit == (InitIndex \/ InitFormat) /\ SplitStart

\* one run of one program
Init ==
    \/ ConverterInit /\ HexOff /\ SplitOff
    \/ ConverterOff /\ HexInit /\ SplitOff
    \/ ConverterOff /\ HexOff /\ SplitInit

Next ==
    \/ ParseArgs \/ CheckCount \/ ValidateStep \/ ValidateDone \/ ProcessStep \/ Finish
    \/ PickFiles \/ GuiCheckCount \/ GuiProcessStep \/ GuiFinish
    \/ Encode
    \/ SplitMain \/ ReadAndMatch \/ LoopStep \/ WriteMaster

Spec == Init /\ [][Next]_vars

----------------------------------------------------------------------------
(* Properties of the converters *)

\* some path of the batch does not exist when the run starts
HasMissing == \E j \in 1..Len(args) : ~Exists(fs0, args[j])

\* the batch is within the file-count bound and every path exists
GatePassed == Len(args) \in 1..MAX_FILES /\ ~HasMissing

WroteIdx(w) == {w[k].idx : k \in 1..Len(w)}

\* C1: in the CLI converter a batch of 1..MAX_FILES paths of which at least one
\* does not exist (at any position) writes no output file for any input, also
\* not for inputs before the missing one, and exits with a non-zero status.
C1_MissingPathBlocksBatch ==
    (pc # "off" /\ Len(args) \in 1..MAX_FILES /\ HasMissing) =>
        /\ wrote = <<>>
        /\ opened = <<>>
        /\ fs = fs0
        /\ pc # "process"
        /\ ~success
        /\ exitcode # 0
        /\ pc = "done" => exitcode >= 1

\* input #2 is missing, input #1 would have converted; the run has ended
C1_Witness ==
    /\ pc = "done" /\ exitcode = 1
    /\ Len(args) = 2
    /\ fs0[args[1]] = Mono16
    /\ ~Exists(fs0, args[2])
    /\ wrote = <<>>

\* C2: in the CLI converter a batch of more than MAX_FILES paths aborts at once:
\* no path is existence-checked, opened or converted, nothing is written and the
\* exit status is non-zero, whatever the paths are; a batch of exactly MAX_FILES
\* paths is not rejected by the count check.
C2_TooManyFilesAborts ==
    pc # "off" =>
        /\ Len(args) > MAX_FILES =>
              /\ statted = {} /\ opened = <<>> /\ wrote = <<>> /\ fs = fs0
              /\ pc \in {"parse", "count", "done"}
              /\ ~success
              /\ exitcode # 0
              /\ pc = "done" => exitcode >= 1
        /\ Len(args) = MAX_FILES =>
              /\ "Too many files specified" \notin Range(stderr)
              /\ pc = "done" => statted # {}

\* MAX_FILES + 1 paths, every one an existing valid WAV, and the run was refused
C2_Witness ==
    /\ pc = "done" /\ exitcode = 1
    /\ Len(args) = MAX_FILES + 1
    /\ \A j \in 1..Len(args) : fs0[args[j]] = Mono16
    /\ statted = {}

\* C3: once every path passed the existence gate the CLI converts the files in
\* argument order, and the first file-level failure, at position k, ends the run
\* at once with a non-zero status: no file after k is opened or written, every
\* file before k was converted, and the success message and status 0 occur only
\* when every file of the batch was converted.
C3_FirstFailureEndsRun ==
    (pc # "off" /\ GatePassed) =>
        /\ opened = [j \in 1..Len(opened) |-> j]
        /\ \A k \in 1..Len(wrote) :
              /\ wrote[k].idx \in Range(opened)
              /\ k > 1 => wrote[k - 1].idx < wrote[k].idx
        /\ exitcode # NoExit => pc = "done"
        /\ exitcode >= 1 =>
              /\ ~success
              /\ Len(opened) <= pi
              /\ \A k \in 1..Len(wrote) : wrote[k].idx <= pi
              /\ \A j \in 1..(pi - 1) : j \in WroteIdx(wrote)
        /\ success <=> exitcode = 0
        /\ exitcode = 0 => WroteIdx(wrote) = 1..Len(args)

\* the first of two existing files failed after it was opened, and the second,
\* a valid WAV, was left alone
C3_Witness ==
    /\ pc = "done" /\ exitcode = 1 /\ GatePassed
    /\ Len(args) = 2 /\ args[1] # args[2]
    /\ pi = 1 /\ opened = <<1>>
    /\ fs0[args[2]] = Mono16
    /\ fs[OutPath(args[2], outdir)] = Missing

HexDigitSet == Range(HexDigits)

\* the length of a listing of n bytes: n entries of 4 characters and n - 1 commas
ListingLength(n) == IF n = 0 THEN 0 ELSE 5 * n - 1

\* C4 (amended): the hex listing of a byte buffer is its entries 0xHH (two
\* upper-case hex digits) joined by single commas with no trailing separator; it
\* has 5 * len(buffer) - 1 characters for a buffer of 1 byte or more and 0
\* characters for the empty buffer.
C4_ListingLengthAmended ==
    /\ hpc = "done" =>
          /\ Len(hline) = ListingLength(Len(hbuf))
          /\ \A j \in 1..Len(hbuf) :
                /\ hline[5 * j - 4] = "0" /\ hline[5 * j - 3] = "x"
                /\ hline[5 * j - 2] \in HexDigitSet /\ hline[5 * j - 1] \in HexDigitSet
                /\ j < Len(hbuf) => hline[5 * j] = ","
    /\ \A k \in 1..Len(wrote) : wrote[k].nchars = ListingLength(wrote[k].nbytes)
    /\ \A k \in 1..Len(gwrote) : gwrote[k].nchars = ListingLength(gwrote[k].nbytes)

\* a buffer of two bytes was encoded
C4_Witness == hpc = "done" /\ Len(hbuf) = 2 /\ Len(hline) = 9

\* C4 as claimed: the listing has exactly 4 * len(buffer) - 1 characters, for
\* every buffer length including 0 and 1.
C4_ListingLengthClaimed ==
    /\ hpc = "done" => Len(hline) = 4 * Len(hbuf) - 1
    /\ \A k \in 1..Len(wrote) : wrote[k].nchars = 4 * wrote[k].nbytes - 1

\* the input at position j was a valid mono 16-bit uncompressed WAV when the
\* k-th write read it (no earlier write of the run replaced it)
ReadValid(k) ==
    LET w == fs0[args[wrote[k].idx]]
    IN  /\ w.k = "wav" /\ w.nch = 1 /\ w.sw = 2 /\ w.comp = "NONE"
        /\ \A m \in 1..(k - 1) : wrote[m].path # args[wrote[k].idx]

\* C5: for every valid mono 16-bit uncompressed WAV and every integer
\* --max-seconds the CLI accepts, the number of frames converted is
\* min(frame_rate * max_seconds, total_frames): never more than total_frames,
\* never more than frame_rate * max_seconds, and all total_frames frames when
\* total_frames < frame_rate * max_seconds.
C5_FramesConverted ==
    \A k \in 1..Len(wrote) :
        ReadValid(k) =>
            LET w == fs0[args[wrote[k].idx]]
                total == Len(w.data) \div 2
                cap == w.rate * maxsec
                converted == wrote[k].nbytes \div 2
            IN  /\ wrote[k].nbytes = 2 * converted
                /\ converted = (IF cap < total THEN cap ELSE total)
                /\ converted <= total
                /\ converted <= cap
                /\ total < cap => converted = total

GenericErrors == {"Error processing", "Unexpected error processing"}

Defaults == outdir = NoDir /\ ~verbose /\ maxsec = MAX_SECONDS

BothDone == pc = "done" /\ gpc = "done"

\* the files written, their contents, and whether the run failed
SameOutcome ==
    /\ gwrote = wrote
    /\ gfs = fs
    /\ (exitcode # 0) <=> (gexit # 0)

\* C7 (amended): for every ordered selection in which every path exists
\* (selections with an invalid file or with more than 18 files included) the GUI
\* converter and the CLI converter run with default options write the same
\* files with the same contents and agree on failure; for a selection with a
\* missing file both runs end in failure, and the CLI has written nothing.
C7_SameContractAmended ==
    (BothDone /\ Defaults) =>
        IF HasMissing
        THEN exitcode # 0 /\ gexit # 0 /\ wrote = <<>> /\ fs = fs0
        ELSE SameOutcome

\* both converters wrote the first file's listing and failed on the second
C7_Witness ==
    /\ BothDone /\ Defaults /\ ~HasMissing
    /\ Len(args) = 2
    /\ Len(wrote) = 1 /\ Len(gwrote) = 1
    /\ exitcode = 1 /\ gexit = 1

\* C7 as claimed: for every ordered selection, a missing file included, the
\* files written, their contents and whether the run ends in failure are the
\* same in the GUI converter and in the CLI converter with default options.
C7_SameContractClaimed == (BothDone /\ Defaults) => SameOutcome

\* C10: in a CLI batch of distinct existing inputs the output paths are pairwise
\* distinct and none is an input path of the batch, so that after a successful
\* run every input file is unchanged and every input's listing is in its own
\* output file (with and without the output directory, whatever the extension).
C10_IndependentPaths ==
    (pc = "done" /\ success /\ Cardinality(Range(args)) = Len(args)
        /\ \A j \in 1..Len(args) : fs0[args[j]].k = "wav") =>
            /\ \A j, k \in 1..Len(args) :
                  /\ j # k => OutPath(args[j], outdir) # OutPath(args[k], outdir)
                  /\ OutPath(args[j], outdir) # args[k]
            /\ \A j \in 1..Len(args) : fs[args[j]] = fs0[args[j]]
            /\ \A k \in 1..Len(wrote) :
                  fs[wrote[k].path] =
                      Text(HexLine(SubSeq(fs0[args[wrote[k].idx]].data, 1, wrote[k].nbytes)))

----------------------------------------------------------------------------
(* Properties of the splitter *)

\* the payload is dropped: once cleaned it is empty or holds the word
\* 'placeholder' in any case
Dropped(data) ==
    LET c == Clean(data)
    IN  \/ c = <<>>
        \/ \E j \in 1..Len(c) : c[j].t = "word" /\ Lower(c[j].w) = "placeholder"

RECURSIVE FirstSeen(_)
\* the elements of s in the order of their first occurrence, once each
FirstSeen(s) ==
    IF Len(s) = 0 THEN <<>>
    ELSE LET front == FirstSeen(SubSeq(s, 1, Len(s) - 1))
             last == s[Len(s)]
         IN  IF last \in Range(front) THEN front ELSE Append(front, last)

\* the names of the matched arrays that are kept, in text order
KeptNames ==
    LET kept == SelectSeq(matches, LAMBDA m : ~Dropped(m.data))
    IN  [j \in 1..Len(kept) |-> kept[j].name]

\* C8: samples.h lists exactly the matched arrays whose cleaned payload is
\* non-empty and free of the word 'placeholder', in the order they are first
\* seen, once each, with the same names in the same order in the include list,
\* the pointer collection and the length-macro collection, with no comma after
\* the last entry; a dropped array has no file of its own and is not listed.
C8_IndexListsKeptOnce ==
    (spc = "done" /\ inputExists) =>
        LET V == FirstSeen(KeptNames)
        IN  /\ master.file = "master"
            /\ master.includes = V
            /\ Len(master.pointers) = Len(V) /\ Len(master.lengths) = Len(V)
            /\ \A j \in 1..Len(V) :
                  /\ master.pointers[j].text = V[j]
                  /\ master.lengths[j].text = <<Upper(V[j]), "_LEN">>
                  /\ master.pointers[j].comma = (j < Len(V))
                  /\ master.lengths[j].comma = (j < Len(V))
            /\ \A n \in SampleNames :
                  n \notin Range(V) => headers[n] = NoFile

\* the literals of a token sequence, in order
Literals(toks) == SelectSeq(toks, LAMBDA tok : tok.t = "lit")

\* a list of literals separated by one comma each and any white space
IsByteList(toks) ==
    LET solid == SelectSeq(toks, LAMBDA tok : ~IsSpace(tok))
    IN  /\ Len(solid) % 2 = 1
        /\ \A j \in 1..Len(solid) :
              IF j % 2 = 1 THEN solid[j].t = "lit" ELSE solid[j] = Comma

\* C9: an array of n >= 1 byte literals is reformatted into ceil(n/16) lines
\* that keep the literals in order: every line but the last holds exactly 16
\* entries and ends with a comma, the last line holds the remaining 1..16
\* entries and no trailing comma; for any comma/white-space separation of the
\* literals that the declaration pattern accepts.
C9_SixteenPerLine ==
    (spc = "done" /\ inputExists) =>
        \A i \in 1..Len(matches) :
            LET name == matches[i].name
                lits == Literals(matches[i].data)
                n == Len(lits)
                lines == headers[name].lines
                count == (n + BytesPerLine - 1) \div BytesPerLine
            IN  (IsByteList(matches[i].data)
                    /\ \A k \in (i + 1)..Len(matches) : matches[k].name # name) =>
                  /\ headers[name].file = "header"
                  /\ Len(lines) = count
                  /\ \A k \in 1..Len(lines) :
                        LET line == lines[k]
                            want == SubSeq(lits, (k - 1) * BytesPerLine + 1,
                                           Min(k * BytesPerLine, n))
                        IN  /\ Literals(line) = want
                            /\ k < count => Len(want) = BytesPerLine
                            /\ (line[Len(line)] = Comma) <=> (k < count)

====
